---- MODULE Spec2Model ----
(***************************************************************************)
(* Model of mr/core/motion.py: mean squared displacement, two-point        *)
(* correlation, drift and displacement-distribution statistics computed    *)
(* from a trajectory table.                                                *)
(*                                                                         *)
(* Numbers.  The program computes in floating point; the model computes    *)
(* in exact rationals, kept in lowest terms so that equality of values is  *)
(* equality of numbers, with one distinguished missing value (NaN).        *)
(* A division x/0 with x # 0 (an infinity) arises at no call site that is  *)
(* modelled: a zero weight N comes with a missing numerator, and a zero    *)
(* separation R comes with zero components R_x, R_y.                       *)
(*                                                                         *)
(* Tables.  A DataFrame is a sequence of rows or a function from index     *)
(* labels to rows; a row is a function from column names to values.  The   *)
(* trajectory table is a sequence of rows [idx, probe, frame, x, y], idx   *)
(* being the row's index label.                                            *)
(***************************************************************************)
EXTENDS Integers, Sequences, FiniteSets, TLC

VARIABLES
    traj,      \* the caller's trajectory table
    call,      \* the last call made and its arguments
    result     \* what that call returned

vars == <<traj, call, result>>

(***************************************************************************)
(* Bounds of the model.                                                    *)
(***************************************************************************)
MaxTrackFrame == 4    \* a single trajectory has frames within 0..MaxTrackFrame
MaxLagtime == 5       \* requested max_lagtime ranges over 1..MaxLagtime
MaxFrame == 2         \* a table of several probes has frames within 0..MaxFrame
TpMaxFrame == 1       \* the same, for the two-point correlation

DefaultMaxLagtime == 100
DefaultThreshold == 3

MppValues == {1, 2}
FpsValues == {1, 2}
TrackPositions == {<<0, 0>>, <<1, 0>>, <<3, 1>>}
PairPositions == {<<0, 0>>, <<3, 1>>}
GridPositions == {<<0, 0>>, <<1, 0>>, <<2, 0>>, <<0, 1>>, <<1, 1>>}
TableLagtimes == {2, DefaultMaxLagtime}
LagframeLists == {<<1>>, <<1, 2>>}
Thresholds == {1, DefaultThreshold, 5}

(***************************************************************************)
(* Values: rationals in lowest terms, and NaN.                             *)
(***************************************************************************)
NaN == [nan |-> TRUE, n |-> 0, d |-> 1]

Abs(a) == IF a < 0 THEN -a ELSE a

Min(a, b) == IF a < b THEN a ELSE b

RECURSIVE GCD(_, _)
GCD(a, b) == IF b = 0 THEN a ELSE GCD(b, a % b)

Whole(i) == [nan |-> FALSE, n |-> i, d |-> 1]

\* n/d in lowest terms, d # 0
Num(n, d) ==
    IF d = 1 THEN Whole(n)
    ELSE LET g == GCD(Abs(n), Abs(d))
             s == IF d < 0 THEN -1 ELSE 1
         IN  [nan |-> FALSE, n |-> (s * n) \div g, d |-> (s * d) \div g]

Add(a, b) == IF a.nan \/ b.nan THEN NaN ELSE Num(a.n * b.d + b.n * a.d, a.d * b.d)

Sub(a, b) == IF a.nan \/ b.nan THEN NaN ELSE Num(a.n * b.d - b.n * a.d, a.d * b.d)

Mul(a, b) == IF a.nan \/ b.nan THEN NaN ELSE Num(a.n * b.n, a.d * b.d)

\* true division (from __future__ import division); every zero divisor
\* of the model meets a zero dividend, and 0/0 is NaN
Div(a, b) == IF a.nan \/ b.nan \/ b.n = 0 THEN NaN ELSE Num(a.n * b.d, a.d * b.n)

\* a > b on non-missing values
Gt(a, b) == a.n * b.d > b.n * a.d

(***************************************************************************)
(* Series: functions from index labels to values.                          *)
(***************************************************************************)
\* f itself, as a table of its values: pandas computes a derived series
\* once, where a function expression is evaluated anew at each application
Eager(f) == f @@ <<>>

NotNaN(s) == {k \in DOMAIN s : ~s[k].nan}

\* counts the missing entries instead
CountMissing(s) == Cardinality(DOMAIN s \ NotNaN(s))

\* Series.count(): the number of non-missing entries
Count(s) == Cardinality(NotNaN(s))

RECURSIVE SumOver(_, _)
SumOver(s, K) ==
    IF K = {} THEN Whole(0)
    ELSE LET k == CHOOSE k \in K : TRUE
         IN  Add(s[k], SumOver(s, K \ {k}))

\* sum(skipna=True): missing entries are skipped, all missing gives NaN
Sum(s) ==
    LET K == NotNaN(s)
    IN  IF K = {} THEN NaN ELSE SumOver(s, K)

\* mean(skipna=True)
Mean(s) ==
    LET K == NotNaN(s)
    IN  IF K = {} THEN NaN ELSE Div(SumOver(s, K), Whole(Cardinality(K)))

\* Series.div(other): aligned on the union of the two indexes, missing
\* where a label is in one index only
SeriesDiv(a, b) ==
    [k \in DOMAIN a \cup DOMAIN b |->
        IF k \in DOMAIN a /\ k \in DOMAIN b THEN Div(a[k], b[k]) ELSE NaN]

\* frame[column] = series: the series reindexed to the frame's index
AssignColumn(index, s) == [k \in index |-> IF k \in DOMAIN s THEN s[k] ELSE NaN]

\* Series(array): the default index 0 .. len-1
SeriesOf(seq) == [i \in 0 .. Len(seq) - 1 |-> seq[i + 1]]

SetMax(S) == CHOOSE m \in S : \A k \in S : k <= m

SetMin(S) == CHOOSE m \in S : \A k \in S : m <= k

\* frame[:-1]: all rows but the last, rows being in ascending label order
DropLast(tbl) == [k \in DOMAIN tbl \ {SetMax(DOMAIN tbl)} |-> tbl[k]]

RECURSIVE Ascending(_)
Ascending(S) ==
    IF S = {} THEN <<>> ELSE <<SetMin(S)>> \o Ascending(S \ {SetMin(S)})

(***************************************************************************)
(* Frame Reindexer and Displacement Engine (msd, _tp_corr, vanhove).       *)
(***************************************************************************)
NoPos == [x |-> NaN, y |-> NaN]

\* pos.reindex(np.arange(pos.index[0], 1 + pos.index[-1]))
Reindex(ptraj) ==
    Eager([f \in ptraj[1].idx .. ptraj[Len(ptraj)].idx |->
        IF \E i \in 1 .. Len(ptraj) : ptraj[i].idx = f
        THEN LET r == ptraj[CHOOSE i \in 1 .. Len(ptraj) : ptraj[i].idx = f]
             IN  [x |-> Whole(r.x), y |-> Whole(r.y)]
        ELSE NoPos])

\* pos.shift(lt): the row of label f holds the position of label f - lt
Shift(pos, lt) ==
    [f \in DOMAIN pos |-> IF f - lt \in DOMAIN pos THEN pos[f - lt] ELSE NoPos]

\* pos.sub(pos.shift(lt))
Displacement(pos, lt) ==
    LET old == Eager(Shift(pos, lt))
    IN  Eager([f \in DOMAIN pos |->
            [x |-> Sub(pos[f].x, old[f].x), y |-> Sub(pos[f].y, old[f].y)]])

Column(tbl, c) == Eager([k \in DOMAIN tbl |-> tbl[k][c]])

Squared(s) == Eager([k \in DOMAIN s |-> Mul(s[k], s[k])])

\* disp.icol(0).count(level=0) at one lag
DispCount(pos, lt) == Count(Column(Displacement(pos, lt), "x"))

(***************************************************************************)
(* msd: one trajectory, all lags.                                          *)
(***************************************************************************)
Lagtimes(ptraj, max_lagtime) == 1 .. Min(max_lagtime, Len(ptraj))

\* 2*disp.icol(0).count(level=0).div(Series(lagtimes))
IndependentSamples(pos, lagtimes) ==
    LET count == [lt \in lagtimes |-> Whole(DispCount(pos, lt))]
        arr == Ascending(lagtimes)
        ratio == SeriesDiv(count, SeriesOf([i \in 1 .. Len(arr) |-> Whole(arr[i])]))
    IN  [k \in DOMAIN ratio |-> Mul(Whole(2), ratio[k])]

\* forgets to drop the last lag
TrimNothing(results) == results

\* results[:-1]
TrimLast(results) == DropLast(results)

\* one row of the table: the statistics of the displacements at one lag
LagRow(disp, mpp, fps, lt) ==
    LET mx == Mul(Whole(mpp), Mean(Column(disp, "x")))
        my == Mul(Whole(mpp), Mean(Column(disp, "y")))
        mx2 == Mul(Whole(mpp * mpp), Mean(Squared(Column(disp, "x"))))
        my2 == Mul(Whole(mpp * mpp), Mean(Squared(Column(disp, "y"))))
    IN  ("<x>" :> mx) @@ ("<y>" :> my) @@ ("<x^2>" :> mx2) @@ ("<y^2>" :> my2)
        @@ ("msd" :> Sum(<<mx2, my2>>)) @@ ("lagt" :> Num(lt, fps))

msd(ptraj, mpp, fps, max_lagtime, detail) ==
    LET pos == Reindex(ptraj)
        lagtimes == Lagtimes(ptraj, max_lagtime)
        base == Eager([lt \in lagtimes |->
                          LagRow(Displacement(pos, lt), mpp, fps, lt)])
        N == AssignColumn(lagtimes, IndependentSamples(pos, lagtimes))
        results == IF detail
                   THEN [lt \in lagtimes |-> ("N" :> N[lt]) @@ base[lt]]
                   ELSE base
    IN  TrimLast(results)

(***************************************************************************)
(* Tables of several probes.                                               *)
(***************************************************************************)
ProbeIds(t) == {t[i].probe : i \in 1 .. Len(t)}

RECURSIVE SelectRows(_, _)
SelectRows(t, p) ==
    IF t = <<>> THEN <<>>
    ELSE IF Head(t).probe = p THEN <<Head(t)>> \o SelectRows(Tail(t), p)
         ELSE SelectRows(Tail(t), p)

\* one group of traj.groupby('probe'): the probe's rows, in table order
Group(t, p) == SelectRows(t, p)

\* traj.set_index('frame', inplace=True, drop=False): the caller's table
\* gets the frame column as its index
set_index_inplace(t) == [i \in 1 .. Len(t) |-> [t[i] EXCEPT !.idx = t[i].frame]]

\* t.set_index('frame', drop=False): a new table, the caller's is kept
set_index(t) == [i \in 1 .. Len(t) |-> [t[i] EXCEPT !.idx = t[i].frame]]

\* pd.concat(msds, keys=ids): the per-probe tables under their probe ids
ProbeTables(t, mpp, fps, max_lagtime, detail) ==
    Eager([p \in ProbeIds(t) |-> msd(Group(t, p), mpp, fps, max_lagtime, detail)])

AllLags(msds) == UNION {DOMAIN msds[p] : p \in DOMAIN msds}

\* the entries of one column at one lag, over the probes that have the lag
AtLag(msds, L, c) ==
    Eager([p \in {q \in DOMAIN msds : L \in DOMAIN msds[q]} |-> msds[p][L][c]])

(***************************************************************************)
(* imsd: one statistic per probe.  t is the table after line 98.           *)
(***************************************************************************)
imsd(t, mpp, fps, max_lagtime, statistic) ==
    LET msds == ProbeTables(t, mpp, fps, max_lagtime, FALSE)
        cols == {p \in DOMAIN msds : DOMAIN msds[p] # {}}
    IN  [L \in AllLags(msds) |->
            [lagt |-> Num(L, fps),
             probes |-> [p \in cols |->
                            IF L \in DOMAIN msds[p] THEN msds[p][L][statistic]
                            ELSE NaN]]]

(***************************************************************************)
(* emsd: the ensemble table.  t is the table after line 135.               *)
(***************************************************************************)
\* msds.mul(msds['N'], axis=0).mean(level=1), one column at one lag
WeightedMean(msds, L, c) ==
    LET v == AtLag(msds, L, c)
        N == AtLag(msds, L, "N")
    IN  Mean([p \in DOMAIN v |-> Mul(v[p], N[p])])

\* msds['N'].mean(level=1) at one lag
WeightNorm(msds, L) == Mean(AtLag(msds, L, "N"))

EmsdColumns == {"<x>", "<y>", "<x^2>", "<y^2>", "msd", "N"}

emsd(t, mpp, fps, max_lagtime, detail) ==
    LET msds == ProbeTables(t, mpp, fps, max_lagtime, TRUE)
        cell(L, c) == Div(WeightedMean(msds, L, c), WeightNorm(msds, L))
    IN  [L \in AllLags(msds) |->
            [lagt |-> cell(L, "lagt"),
             cols |-> [c \in (IF detail THEN EmsdColumns ELSE {"msd"}) |-> cell(L, c)]]]

(***************************************************************************)
(* Two-point correlation.  The separation R = sqrt(R_x^2 + R_y^2) is kept  *)
(* exactly, as its square R2.  A component of the unit vector n = R_vec/R  *)
(* is kept as its numerator over R, so a projection d.n is (d_x*R_x +      *)
(* d_y*R_y)/R and a product of two projections is the rational             *)
(* (numerator * numerator)/R2; with R = 0 it is 0/0, missing.              *)
(***************************************************************************)
\* lines 217-221: pos with the columns dx, dy added, one probe
ProbeDisp(t, p, lagframe) ==
    LET pos == Reindex(Group(t, p))
        d == Displacement(pos, lagframe)
    IN  Eager([f \in DOMAIN pos |->
                  [x |-> pos[f].x, y |-> pos[f].y, dx |-> d[f].x, dy |-> d[f].y]])

NoDisp == [x |-> NaN, y |-> NaN, dx |-> NaN, dy |-> NaN]

\* pd.concat(disps, keys=ids, axis=1): the probes side by side, on the
\* union of their frames
JoinProbes(t, lagframe) ==
    LET disps == Eager([p \in ProbeIds(t) |-> ProbeDisp(t, p, lagframe)])
        frames == UNION {DOMAIN disps[p] : p \in DOMAIN disps}
    IN  Eager([p \in DOMAIN disps |->
                  [f \in frames |-> IF f \in DOMAIN disps[p] THEN disps[p][f] ELSE NoDisp]])

RECURSIVE PairsAfter(_, _)
PairsAfter(p1, rest) ==
    IF rest = <<>> THEN <<>> ELSE <<<<p1, Head(rest)>>>> \o PairsAfter(p1, Tail(rest))

RECURSIVE PairsOf(_)
PairsOf(a) == IF a = <<>> THEN <<>> ELSE PairsAfter(Head(a), Tail(a)) \o PairsOf(Tail(a))

\* for p1 in probe_ids: for p2 in probe_ids[probe_ids > p1], ids sorted
ProbePairs(ids) == PairsOf(Ascending(ids))

\* (a/R)*(b/R)
ProductOverR2(a, b, R2) == Div(Mul(a, b), R2)

\* leaves the second component out
ProjectFirst(a, b, n_x, n_y) == Mul(a, n_x)

\* a*n_x + b*n_y, as its numerator over R
Project(a, b, n_x, n_y) == Add(Mul(a, n_x), Mul(b, n_y))

\* lines 228-233 at one frame
PairRow(d1, d2, f, p1, p2) ==
    LET R_x == Sub(d1.x, d2.x)
        R_y == Sub(d1.y, d2.y)
        R2 == Add(Mul(R_x, R_x), Mul(R_y, R_y))
        para == ProductOverR2(Project(d1.dx, d1.dy, R_x, R_y),
                              Project(d2.dx, d2.dy, R_x, R_y), R2)
        p_x == R_y
        p_y == Sub(Whole(0), R_x)
        perp == ProductOverR2(Project(d1.dx, d1.dy, p_x, p_y),
                              Project(d2.dx, d2.dy, p_x, p_y), R2)
    IN  [frame |-> f, pair |-> <<p1, p2>>, R2 |-> R2, para |-> para, perp |-> perp]

\* keeps every row
KeepNA(rows) == rows

RECURSIVE DropNA(_)
\* DataFrame.dropna(): the rows with no missing value
DropNA(rows) ==
    IF rows = <<>> THEN <<>>
    ELSE LET r == Head(rows)
         IN  IF r.R2.nan \/ r.para.nan \/ r.perp.nan THEN DropNA(Tail(rows))
             ELSE <<r>> \o DropNA(Tail(rows))

\* line 234: the rows of one pair, in frame order
PairRows(dr, p1, p2) ==
    LET frames == Ascending(DOMAIN dr[p1])
    IN  DropNA([i \in 1 .. Len(frames) |->
                   PairRow(dr[p1][frames[i]], dr[p2][frames[i]], frames[i], p1, p2)])

RECURSIVE Flatten(_)
\* pd.concat of a list of tables, one after the other
Flatten(tables) ==
    IF tables = <<>> THEN <<>> ELSE Head(tables) \o Flatten(Tail(tables))

\* _tp_corr with bins=False; t is the table after line 212.  A row is
\* [frame, R2, para, perp]; pair records which pair of the loop made it.
_tp_corr(t, lagframe) ==
    LET dr == JoinProbes(t, lagframe)
        pairs == ProbePairs(ProbeIds(t))
    IN  Flatten([k \in 1 .. Len(pairs) |-> PairRows(dr, pairs[k][1], pairs[k][2])])

\* tp_corr with bins=False: ignore_index=True leaves the rows numbered
\* 0, 1, ... with no lag level, and result *= mpp scales every column once
tp_corr(t, mpp, fps, lagframes) ==
    LET D == Flatten([k \in 1 .. Len(lagframes) |-> _tp_corr(t, lagframes[k])])
    IN  [i \in 1 .. Len(D) |->
            [R2 |-> Mul(Whole(mpp * mpp), D[i].R2),
             para |-> Mul(Whole(mpp), D[i].para),
             perp |-> Mul(Whole(mpp), D[i].perp)]]

\* tp_msd: groupby(level=0) groups by the row number, one row a group;
\* a value coef * sqrt(r2) is kept as [coef, r2]
tp_msd(t, mpp, fps, a, lagframes) ==
    LET D == tp_corr(t, mpp, 1, lagframes)
    IN  [i \in 1 .. Len(D) |->
            [lagt |-> Num(i - 1, fps),
             coef |-> Mul(Num(2, a), D[i].para),
             r2 |-> D[i].R2]]

(***************************************************************************)
(* Drift.                                                                  *)
(***************************************************************************)
\* t.set_index('frame', drop=False).diff() of one probe: each row minus the
\* row before it, the first row missing
Diff(rows) ==
    [i \in 1 .. Len(rows) |->
        IF i = 1 THEN [idx |-> rows[i].idx, frame |-> NaN, x |-> NaN, y |-> NaN]
        ELSE [idx |-> rows[i].idx,
              frame |-> Whole(rows[i].frame - rows[i - 1].frame),
              x |-> Whole(rows[i].x - rows[i - 1].x),
              y |-> Whole(rows[i].y - rows[i - 1].y)]]

\* keeps the differences over gaps too
AnyStep(delta) == SelectSeq(delta, LAMBDA r : ~r.frame.nan)

\* delta[delta['frame'] == 1]
ConsecutiveOnly(delta) == SelectSeq(delta, LAMBDA r : r.frame = Whole(1))

\* delta.groupby('frame').mean() after delta['frame'] = delta.index
FrameMeans(delta) ==
    LET frames == {delta[i].idx : i \in 1 .. Len(delta)}
        at(f) == {i \in 1 .. Len(delta) : delta[i].idx = f}
    IN  Eager([f \in frames |->
                  [x |-> Mean([i \in at(f) |-> delta[i].x]),
                   y |-> Mean([i \in at(f) |-> delta[i].y])]])

\* pd.rolling_mean(dx, smoothing, min_periods=0): the mean of the last
\* `smoothing` rows, fewer at the start
RollingMean(dx, smoothing) ==
    LET frames == Ascending(DOMAIN dx)
        pos(f) == CHOOSE i \in 1 .. Len(frames) : frames[i] = f
        window(f) == {frames[i] : i \in {j \in 1 .. Len(frames) :
                                            j <= pos(f) /\ j > pos(f) - smoothing}}
    IN  Eager([f \in DOMAIN dx |->
                  [x |-> Mean([g \in window(f) |-> dx[g].x]),
                   y |-> Mean([g \in window(f) |-> dx[g].y])]])

\* dx.cumsum(0)[['x', 'y']]
CumSum(dx) ==
    [f \in DOMAIN dx |->
        [x |-> SumOver([g \in DOMAIN dx |-> dx[g].x], {g \in DOMAIN dx : g <= f}),
         y |-> SumOver([g \in DOMAIN dx |-> dx[g].y], {g \in DOMAIN dx : g <= f})]]

compute_drift(t, smoothing) ==
    LET ids == Ascending(ProbeIds(t))
        delta == Flatten([k \in 1 .. Len(ids) |-> Diff(set_index(Group(t, ids[k])))])
        dx == FrameMeans(ConsecutiveOnly(delta))
    IN  CumSum(IF smoothing > 0 THEN RollingMean(dx, smoothing) ELSE dx)

\* traj.set_index('frame', drop=False).sub(drift, fill_value=0), drift
\* computed by compute_drift(traj) when none is passed
subtract_drift(t) ==
    LET drift == compute_drift(t, 0)
        rows == set_index(t)
        off(f) == IF f \in DOMAIN drift THEN drift[f] ELSE [x |-> Whole(0), y |-> Whole(0)]
    IN  [i \in 1 .. Len(rows) |->
            [idx |-> rows[i].idx, probe |-> rows[i].probe, frame |-> rows[i].frame,
             x |-> Sub(Whole(rows[i].x), off(rows[i].idx).x),
             y |-> Sub(Whole(rows[i].y), off(rows[i].idx).y)]]

(***************************************************************************)
(* Distribution and outlier tools.                                         *)
(***************************************************************************)
\* sqrt(d2) > threshold, d2 >= 0
SqrtGreater(d2, threshold) == threshold < 0 \/ d2 > threshold * threshold

\* traj.groupby('probe')['x', 'y'].agg(['max', 'min']) of one probe
Extremes(rows) ==
    LET xs == {rows[i].x : i \in 1 .. Len(rows)}
        ys == {rows[i].y : i \in 1 .. Len(rows)}
    IN  [xmax |-> SetMax(xs), xmin |-> SetMin(xs), ymax |-> SetMax(ys), ymin |-> SetMin(ys)]

\* the square of diag_size
DiagSquared(e) == (e.xmax - e.xmin) * (e.xmax - e.xmin) + (e.ymax - e.ymin) * (e.ymax - e.ymin)

is_not_dirt(t, threshold, mpp) ==
    [p \in ProbeIds(t) |-> SqrtGreater(DiagSquared(Extremes(Group(t, p))), threshold)]

\* the docstring's pos = traj.set_index(['frame', 'probe'])['x'].unstack():
\* the x positions, one column per probe, indexed by the observed frames
Unstack(t) ==
    [f \in {t[i].frame : i \in 1 .. Len(t)} |->
        [p \in ProbeIds(t) |->
            IF \E i \in 1 .. Len(t) : t[i].frame = f /\ t[i].probe = p
            THEN Whole(t[CHOOSE i \in 1 .. Len(t) : t[i].frame = f /\ t[i].probe = p].x)
            ELSE NaN]]

\* pos.reindex(np.arange(pos.index[0], 1 + pos.index[-1])), index ascending
ReindexFrames(pos) ==
    LET missing == [p \in UNION {DOMAIN pos[f] : f \in DOMAIN pos} |-> NaN]
    IN  Eager([f \in SetMin(DOMAIN pos) .. SetMax(DOMAIN pos) |->
                  IF f \in DOMAIN pos THEN pos[f] ELSE missing])

\* assert lagtime <= pos.index.values.max()
LagAllowed(pos, lagtime) == lagtime <= SetMax(DOMAIN pos)

\* np.histogram(values, bins=bins)[1] for a number of bins: equal bins from
\* the least to the greatest value, widened by 1/2 each way when they are
\* equal, from 0 to 1 when there is no value
BinEdges(values, bins) ==
    LET ix == DOMAIN values
        lo == CHOOSE k \in ix : \A j \in ix : ~Gt(values[k], values[j])
        hi == CHOOSE k \in ix : \A j \in ix : ~Gt(values[j], values[k])
        mn == IF ix = {} THEN Whole(0)
              ELSE IF values[lo] = values[hi] THEN Sub(values[lo], Num(1, 2))
              ELSE values[lo]
        mx == IF ix = {} THEN Whole(1)
              ELSE IF values[lo] = values[hi] THEN Add(values[hi], Num(1, 2))
              ELSE values[hi]
    IN  [k \in 0 .. bins |-> Add(mn, Mul(Num(k, bins), Sub(mx, mn)))]

\* np.histogram(x, bins=edges, density=True)[0]: the last bin is closed,
\* missing values are not counted, and no value at all gives 0/0
Density(x, edges) ==
    LET last == SetMax(DOMAIN edges) - 1
        vals == NotNaN(x)
        inbin(k) == {f \in vals :
                        /\ ~Gt(edges[k], x[f])
                        /\ IF k = last THEN ~Gt(x[f], edges[k + 1])
                           ELSE Gt(edges[k + 1], x[f])}
        total == Cardinality(UNION {inbin(k) : k \in 0 .. last})
    IN  [k \in 0 .. last |->
            Div(Whole(Cardinality(inbin(k))),
                Mul(Whole(total), Sub(edges[k + 1], edges[k])))]

vanhove(pos0, lagtime, mpp, ensemble, bins) ==
    LET pos == ReindexFrames(pos0)
        probes == UNION {DOMAIN pos[f] : f \in DOMAIN pos}
        disp == Eager([p \in probes |->
                    Eager([f \in DOMAIN pos |->
                        IF f - lagtime \in DOMAIN pos
                        THEN Mul(Whole(mpp), Sub(pos[f][p], pos[f - lagtime][p]))
                        ELSE NaN])])
        finite == {<<p, f>> \in probes \X DOMAIN pos : ~disp[p][f].nan}
        global_bins == BinEdges([k \in finite |-> disp[k[1]][k[2]]], bins)
        vh == Eager([p \in probes |-> Density(disp[p], global_bins)])
    IN  IF ~LagAllowed(pos, lagtime) THEN [raised |-> TRUE]
        ELSE [raised |-> FALSE,
              vh |-> [k \in 0 .. bins - 1 |->
                         [edge |-> global_bins[k],
                          density |->
                              IF ensemble
                              THEN Div(Sum([p \in probes |-> vh[p][k]]),
                                       Whole(Cardinality(probes)))
                              ELSE [p \in probes |-> vh[p][k]]]]]

(***************************************************************************)
(* Inputs: single trajectories, index = frame, frames ascending.           *)
(***************************************************************************)
FrameRows(g, p) ==
    LET fs == Ascending(DOMAIN g)
    IN  [i \in 1 .. Len(fs) |->
            [idx |-> fs[i], probe |-> p, frame |-> fs[i],
             x |-> g[fs[i]][1], y |-> g[fs[i]][2]]]

Tracks(maxFrame, positions) ==
    UNION {[fs -> positions] : fs \in (SUBSET (0 .. maxFrame)) \ {{}}}

\* the end-to-end scenario: frames 0..4 at (0,0), (1,0), (2,0), (3,0), (4,0)
ScenarioTraj == FrameRows([f \in 0 .. 4 |-> <<f, 0>>], 1)

\* a table as a tracking stage writes it: frame by frame, the probes of a
\* frame in ascending order, under the default index 0, 1, ...
\* tracks[p] maps the frames of probe p to its positions
Table(tracks) ==
    LET frames == Ascending(UNION {DOMAIN tracks[p] : p \in DOMAIN tracks})
        probes == Ascending(DOMAIN tracks)
        seen(f) == SelectSeq(probes, LAMBDA p : f \in DOMAIN tracks[p])
        keys == Flatten([i \in 1 .. Len(frames) |->
                            [j \in 1 .. Len(seen(frames[i])) |->
                                <<frames[i], seen(frames[i])[j]>>]])
    IN  Eager([i \in 1 .. Len(keys) |->
                  [idx |-> i - 1, probe |-> keys[i][2], frame |-> keys[i][1],
                   x |-> tracks[keys[i][2]][keys[i][1]][1],
                   y |-> tracks[keys[i][2]][keys[i][1]][2]]])

Tables(probes, maxFrame, positions) ==
    {Table(tracks) : tracks \in [probes -> Tracks(maxFrame, positions)]}

NoCall == [fn |-> "none"]

(***************************************************************************)
(* Calls.  A caller holds one table and makes one call on it; where        *)
(* `repeat` is set the caller may make that same call once more, on the    *)
(* same table object.  A call record holds the function and its arguments. *)
(***************************************************************************)
Start(tables) ==
    /\ traj \in tables
    /\ call = NoCall
    /\ result = <<>>

\* c is the call about to be made, not yet marked as a repeat
Ready(c, repeat) == call = NoCall \/ (repeat /\ call = c)

Made(c) == [c EXCEPT !.again = (call # NoCall)]

CallMsd ==
    \E mpp \in MppValues, fps \in FpsValues,
       max_lagtime \in 1 .. MaxLagtime, detail \in BOOLEAN :
       LET c == [fn |-> "msd", mpp |-> mpp, fps |-> fps,
                 max_lagtime |-> max_lagtime, detail |-> detail, again |-> FALSE]
       IN  /\ Ready(c, FALSE)
           /\ call' = Made(c)
           /\ result' = msd(traj, mpp, fps, max_lagtime, detail)
           /\ UNCHANGED traj

CallImsd(repeat) ==
    \E mpp \in MppValues, fps \in FpsValues,
       max_lagtime \in TableLagtimes, statistic \in {"msd", "<x>"} :
       LET c == [fn |-> "imsd", mpp |-> mpp, fps |-> fps, max_lagtime |-> max_lagtime,
                 statistic |-> statistic, again |-> FALSE]
       IN  /\ Ready(c, repeat)
           /\ call' = Made(c)
           /\ traj' = set_index_inplace(traj)
           /\ result' = imsd(traj', mpp, fps, max_lagtime, statistic)

CallEmsd(repeat) ==
    \E mpp \in MppValues, fps \in FpsValues,
       max_lagtime \in TableLagtimes, detail \in BOOLEAN :
       LET c == [fn |-> "emsd", mpp |-> mpp, fps |-> fps, max_lagtime |-> max_lagtime,
                 detail |-> detail, again |-> FALSE]
       IN  /\ Ready(c, repeat)
           /\ call' = Made(c)
           /\ traj' = set_index_inplace(traj)
           /\ result' = emsd(traj', mpp, fps, max_lagtime, detail)

\* _tp_corr(traj, lagframe, bins=False)
CallTpCorrAtLag(maxLag) ==
    \E lagframe \in 1 .. maxLag :
       LET c == [fn |-> "_tp_corr", lagframe |-> lagframe, again |-> FALSE]
       IN  /\ Ready(c, FALSE)
           /\ call' = Made(c)
           /\ traj' = set_index_inplace(traj)
           /\ result' = _tp_corr(traj', lagframe)

\* tp_corr(traj, mpp, fps, lagframes, bins=False)
CallTpCorr(repeat) ==
    \E mpp \in MppValues, lagframes \in LagframeLists :
       LET c == [fn |-> "tp_corr", mpp |-> mpp, fps |-> 1, lagframes |-> lagframes,
                 again |-> FALSE]
       IN  /\ Ready(c, repeat)
           /\ call' = Made(c)
           /\ traj' = set_index_inplace(traj)
           /\ result' = tp_corr(traj', mpp, 1, lagframes)

CallTpMsd(repeat) ==
    \E mpp \in MppValues, fps \in FpsValues, lagframes \in LagframeLists :
       LET c == [fn |-> "tp_msd", mpp |-> mpp, fps |-> fps, a |-> 1,
                 lagframes |-> lagframes, again |-> FALSE]
       IN  /\ Ready(c, repeat)
           /\ call' = Made(c)
           /\ traj' = set_index_inplace(traj)
           /\ result' = tp_msd(traj', mpp, fps, 1, lagframes)

CallComputeDrift(repeat) ==
    \E smoothing \in {0, 2} :
       LET c == [fn |-> "compute_drift", smoothing |-> smoothing, again |-> FALSE]
       IN  /\ Ready(c, repeat)
           /\ call' = Made(c)
           /\ result' = compute_drift(traj, smoothing)
           /\ UNCHANGED traj

CallSubtractDrift(repeat) ==
    LET c == [fn |-> "subtract_drift", again |-> FALSE]
    IN  /\ Ready(c, repeat)
        /\ call' = Made(c)
        /\ result' = subtract_drift(traj)
        /\ UNCHANGED traj

CallIsNotDirt ==
    \E threshold \in Thresholds, mpp \in MppValues :
       LET c == [fn |-> "is_not_dirt", threshold |-> threshold, mpp |-> mpp,
                 again |-> FALSE]
       IN  /\ Ready(c, FALSE)
           /\ call' = Made(c)
           /\ result' = is_not_dirt(traj, threshold, mpp)
           /\ UNCHANGED traj

\* vanhove(pos, lagtime, mpp, ensemble, bins) on pos made from the table
CallVanhove ==
    \E lagtime \in 1 .. MaxFrame + 1, mpp \in MppValues, ensemble \in BOOLEAN :
       LET c == [fn |-> "vanhove", lagtime |-> lagtime, mpp |-> mpp,
                 ensemble |-> ensemble, bins |-> 2, again |-> FALSE]
       IN  /\ Ready(c, FALSE)
           /\ call' = Made(c)
           /\ result' = vanhove(Unstack(traj), lagtime, mpp, ensemble, 2)
           /\ UNCHANGED traj

(***************************************************************************)
(* Specifications.                                                         *)
(***************************************************************************)
\* one trajectory, msd
InitMsd ==
    Start({FrameRows(g, 1) : g \in Tracks(MaxTrackFrame, TrackPositions)}
          \cup {ScenarioTraj})

NextMsd == CallMsd

SpecMsd == InitMsd /\ [][NextMsd]_vars

\* a table of two probes, the functions that take the trajectory table
Init == Start(Tables(1 .. 2, MaxFrame, PairPositions))

Next ==
    \/ CallImsd(TRUE)
    \/ CallEmsd(TRUE)
    \/ CallTpCorr(TRUE)
    \/ CallTpMsd(TRUE)
    \/ CallComputeDrift(TRUE)
    \/ CallSubtractDrift(TRUE)

Spec == Init /\ [][Next]_vars

\* drift of two probes
InitDrift == Start(Tables(1 .. 2, MaxFrame, TrackPositions))

NextDrift == CallComputeDrift(FALSE) \/ CallSubtractDrift(FALSE)

SpecDrift == InitDrift /\ [][NextDrift]_vars

\* two-point correlation at one lag: two probes on a plane grid, and three
\* probes that can only meet or stand apart
InitTp ==
    Start(Tables(1 .. 2, TpMaxFrame, GridPositions)
          \cup Tables(1 .. 3, TpMaxFrame, PairPositions))

NextTp == CallTpCorrAtLag(TpMaxFrame)

SpecTp == InitTp /\ [][NextTp]_vars

\* the distribution and outlier tools
InitTools == Start(Tables(1 .. 2, MaxFrame, PairPositions))

NextTools == CallIsNotDirt \/ CallVanhove

SpecTools == InitTools /\ [][NextTools]_vars

(***************************************************************************)
(* Properties of msd, stated on the table the caller passed.               *)
(***************************************************************************)
FramesOf(t) == {t[i].frame : i \in 1 .. Len(t)}

GapFree(t) == \A f \in SetMin(FramesOf(t)) .. SetMax(FramesOf(t)) : f \in FramesOf(t)

RowAt(t, f) == t[CHOOSE i \in 1 .. Len(t) : t[i].frame = f]

\* the frames f at which both f and f - L were observed
PairFrames(t, L) == {f \in FramesOf(t) : f - L \in FramesOf(t)}

RECURSIVE SumInts(_, _)
SumInts(v, K) ==
    IF K = {} THEN 0
    ELSE LET k == CHOOSE k \in K : TRUE IN v[k] + SumInts(v, K \ {k})

Dx(t, L) == [f \in PairFrames(t, L) |-> RowAt(t, f).x - RowAt(t, f - L).x]

Dy(t, L) == [f \in PairFrames(t, L) |-> RowAt(t, f).y - RowAt(t, f - L).y]

Sq(v) == [k \in DOMAIN v |-> v[k] * v[k]]

MsdCalled == call.fn = "msd"

\* C2: with detail=True, every reported lag L has
\* N = 2 * (number of frames with a non-missing displacement at lag L) / L.
C2_SamplesDividedByLag ==
    (MsdCalled /\ call.detail) =>
        \A L \in DOMAIN result :
            result[L]["N"] = Num(2 * Cardinality(PairFrames(traj, L)), L)

\* C3: on a gap-free trajectory of F frames msd returns exactly the lags
\* 1 .. min(max_lagtime, F) - 1, each with lag time L/fps, <x>, <y> = mpp
\* times the mean displacement and <x^2>, <y^2> = mpp^2 times the mean
\* squared displacement at lag L; the end-to-end scenario gives the single
\* row lag 1 with <x>=1, <y>=0, <x^2>=1, <y^2>=0, msd=1.
C3_GapFreeRows ==
    (MsdCalled /\ GapFree(traj)) =>
        LET F == Len(traj)
            M == Min(call.max_lagtime, F)
            mpp == call.mpp
        IN  /\ DOMAIN result = 1 .. M - 1
            /\ \A L \in DOMAIN result :
                 /\ result[L]["lagt"] = Num(L, call.fps)
                 /\ result[L]["<x>"] = Num(mpp * SumInts(Dx(traj, L), PairFrames(traj, L)), F - L)
                 /\ result[L]["<y>"] = Num(mpp * SumInts(Dy(traj, L), PairFrames(traj, L)), F - L)
                 /\ result[L]["<x^2>"] =
                        Num(mpp * mpp * SumInts(Sq(Dx(traj, L)), PairFrames(traj, L)), F - L)
                 /\ result[L]["<y^2>"] =
                        Num(mpp * mpp * SumInts(Sq(Dy(traj, L)), PairFrames(traj, L)), F - L)
            /\ (traj = ScenarioTraj /\ mpp = 1 /\ call.fps = 1 /\ call.max_lagtime = 2) =>
                 /\ DOMAIN result = {1}
                 /\ result[1]["<x>"] = Whole(1) /\ result[1]["<y>"] = Whole(0)
                 /\ result[1]["<x^2>"] = Whole(1) /\ result[1]["<y^2>"] = Whole(0)
                 /\ result[1]["msd"] = Whole(1) /\ result[1]["lagt"] = Whole(1)

\* the end-to-end scenario has been computed
C3_Witness ==
    /\ MsdCalled /\ traj = ScenarioTraj
    /\ call.mpp = 1 /\ call.fps = 1 /\ call.max_lagtime = 2
    /\ DOMAIN result = {1}

\* the number of non-missing displacements msd counted at a reported lag,
\* read back from the row's N = 2 * count / (L + 1)
SupportAt(L) == Mul(result[L]["N"], Num(L + 1, 2))

\* C7 as stated: for every trajectory, gaps allowed, and all reported lags
\* L < L', lag L has at least as many non-missing displacements as lag L'.
C7_SupportMonotone ==
    (MsdCalled /\ call.detail) =>
        \A L \in DOMAIN result, K \in DOMAIN result :
            L < K => ~Gt(SupportAt(K), SupportAt(L))

\* C7 amended: the same, for every trajectory without gaps in its frames.
C7_SupportMonotoneGapFree ==
    (MsdCalled /\ call.detail /\ GapFree(traj)) =>
        \A L \in DOMAIN result, K \in DOMAIN result :
            L < K => ~Gt(SupportAt(K), SupportAt(L))

\* a gap-free trajectory whose table has three lags or more, with strictly
\* more displacements at lag 1 than at lag 3
C7_Witness ==
    /\ MsdCalled /\ call.detail /\ GapFree(traj)
    /\ {1, 2, 3} \subseteq DOMAIN result
    /\ Gt(SupportAt(1), SupportAt(3))

(***************************************************************************)
(* Properties of the functions that take the trajectory table.             *)
(***************************************************************************)
\* the probes with a defined msd at lag L, from each probe's own
\* msd(..., detail=True)
DefinedAt(msds, L) ==
    {p \in DOMAIN msds : L \in DOMAIN msds[p] /\ ~msds[p][L]["msd"].nan}

\* C1: every lag row of emsd reports msd = (sum of msd_i * N_i) / (sum of
\* N_i), the sums over the probes with a defined msd at that lag, also when
\* another probe has a missing msd and N = 0 at that lag.
C1_WeightedMean ==
    call.fn = "emsd" =>
        LET msds == ProbeTables(traj, call.mpp, call.fps, call.max_lagtime, TRUE)
        IN  \A L \in DOMAIN result :
                LET ps == DefinedAt(msds, L)
                    weighted == [p \in ps |-> Mul(msds[p][L]["msd"], msds[p][L]["N"])]
                    N == [p \in ps |-> msds[p][L]["N"]]
                IN  ps # {} =>
                        result[L].cols["msd"] = Div(SumOver(weighted, ps), SumOver(N, ps))

\* C8: no call changes the caller's trajectory table (records, columns and
\* index), so a repeated call sees the same input.
C8_TableReadOnly == [][traj' = traj]_vars

(***************************************************************************)
(* Properties of compute_drift, stated on the table the caller passed.     *)
(***************************************************************************)
Observed(t, p, f) == \E i \in 1 .. Len(t) : t[i].probe = p /\ t[i].frame = f

At(t, p, f) == t[CHOOSE i \in 1 .. Len(t) : t[i].probe = p /\ t[i].frame = f]

\* the probes with records at both f - 1 and f
Contributors(t, f) ==
    {p \in ProbeIds(t) : Observed(t, p, f) /\ Observed(t, p, f - 1)}

\* the across-probe mean of the contributions at f, of column c
StepMean(t, f, c) ==
    LET ps == Contributors(t, f)
    IN  Num(SumInts([p \in ps |-> At(t, p, f)[c] - At(t, p, f - 1)[c]], ps),
            Cardinality(ps))

DriftFrames(t) == {f \in FramesOf(t) : Contributors(t, f) # {}}

\* C9: with smoothing=0 the drift has an entry at exactly the frames f where
\* some probe has records at both f - 1 and f (a difference over a gap
\* contributes nowhere); the entry is the sum over those frames g <= f of the
\* across-probe mean of the contributions at g; the first observed frame has
\* no entry.
C9_DriftIsRunningSum ==
    (call.fn = "compute_drift" /\ call.smoothing = 0) =>
        LET fs == DriftFrames(traj)
            upto(f) == {g \in fs : g <= f}
        IN  /\ DOMAIN result = fs
            /\ SetMin(FramesOf(traj)) \notin DOMAIN result
            /\ \A f \in DOMAIN result :
                 /\ result[f].x = SumOver([g \in fs |-> StepMean(traj, g, "x")], upto(f))
                 /\ result[f].y = SumOver([g \in fs |-> StepMean(traj, g, "y")], upto(f))

\* drift computed from a table in which one probe has a gap and the other
\* moves over two consecutive steps
C9_Witness ==
    /\ call.fn = "compute_drift" /\ call.smoothing = 0
    /\ \E p \in ProbeIds(traj), f \in FramesOf(traj) :
          Observed(traj, p, f) /\ ~Observed(traj, p, f - 1) /\ Observed(traj, p, f - 2)
    /\ Cardinality(DOMAIN result) >= 2
    /\ \E f \in DOMAIN result : result[f].x # Whole(0)

(***************************************************************************)
(* Properties of the two-point correlation at one lag.                     *)
(***************************************************************************)
TpCalled == call.fn = "_tp_corr"

\* probe p has a displacement at frame f
Moved(t, p, f) == Observed(t, p, f) /\ Observed(t, p, f - call.lagframe)

Step(t, p, f) ==
    <<At(t, p, f).x - At(t, p, f - call.lagframe).x,
      At(t, p, f).y - At(t, p, f - call.lagframe).y>>

Separation(t, p, q, f) == <<At(t, p, f).x - At(t, q, f).x, At(t, p, f).y - At(t, q, f).y>>

Norm2(v) == v[1] * v[1] + v[2] * v[2]

Cross(v, w) == v[1] * w[2] - v[2] * w[1]

\* the two probes have the same displacement at every frame, and stand at
\* distinct positions wherever both are observed
IdenticalMotion(t, p, q) ==
    \A f \in FramesOf(t) :
        /\ Moved(t, p, f) <=> Moved(t, q, f)
        /\ Moved(t, p, f) => Step(t, p, f) = Step(t, q, f)
        /\ (Observed(t, p, f) /\ Observed(t, q, f)) => Separation(t, p, q, f) # <<0, 0>>

\* C6 as stated: two probes at distinct positions with the same displacement
\* disp at every frame give para = |disp|^2 and perp = 0 in every row of the
\* pair, whatever the direction of disp relative to their separation.
C6_IdenticalMotion ==
    TpCalled =>
        \A i \in DOMAIN result :
            LET r == result[i]
            IN  IdenticalMotion(traj, r.pair[1], r.pair[2]) =>
                    /\ r.para = Whole(Norm2(Step(traj, r.pair[1], r.frame)))
                    /\ r.perp = Whole(0)

\* C6 amended: for two such probes para + perp = |disp|^2 in every row of
\* the pair, and para = |disp|^2, perp = 0 where disp is parallel to the
\* separation vector.
C6_IdenticalMotionSplit ==
    TpCalled =>
        \A i \in DOMAIN result :
            LET r == result[i]
                disp == Step(traj, r.pair[1], r.frame)
            IN  IdenticalMotion(traj, r.pair[1], r.pair[2]) =>
                    /\ Add(r.para, r.perp) = Whole(Norm2(disp))
                    /\ Cross(disp, Separation(traj, r.pair[1], r.pair[2], r.frame)) = 0 =>
                          (r.para = Whole(Norm2(disp)) /\ r.perp = Whole(0))

\* a row of two probes in identical motion, oblique to their separation
C6_Witness ==
    /\ TpCalled
    /\ \E i \in DOMAIN result :
          /\ IdenticalMotion(traj, result[i].pair[1], result[i].pair[2])
          /\ Gt(result[i].para, Whole(0))
          /\ Gt(result[i].perp, Whole(0))

\* C10: every row has a non-missing R > 0, para and perp; a frame at which
\* the two probes of a pair share a position gives no row; each unordered
\* pair of distinct probes is visited once, so it has exactly one row at
\* each frame where both have a displacement and stand apart, and no row
\* elsewhere.
C10_RowsDefinedPairsOnce ==
    TpCalled =>
        /\ \A i \in DOMAIN result :
              /\ ~result[i].R2.nan /\ Gt(result[i].R2, Whole(0))
              /\ ~result[i].para.nan /\ ~result[i].perp.nan
        /\ \A p \in ProbeIds(traj), q \in ProbeIds(traj), f \in FramesOf(traj) :
              Cardinality({i \in DOMAIN result :
                              /\ result[i].frame = f
                              /\ result[i].pair \in {<<p, q>>, <<q, p>>}}) =
                  IF /\ p # q
                     /\ Moved(traj, p, f) /\ Moved(traj, q, f)
                     /\ Separation(traj, p, q, f) # <<0, 0>>
                  THEN 1 ELSE 0

\* three probes, two of which share a position at a frame where both have a
\* displacement, and rows from the other pairs
C10_Witness ==
    /\ TpCalled
    /\ Cardinality(ProbeIds(traj)) = 3
    /\ \E p \in ProbeIds(traj), q \in ProbeIds(traj), f \in FramesOf(traj) :
          /\ p # q /\ Moved(traj, p, f) /\ Moved(traj, q, f)
          /\ Separation(traj, p, q, f) = <<0, 0>>
    /\ Len(result) >= 2

(***************************************************************************)
(* Properties of the distribution and outlier tools.                       *)
(***************************************************************************)
Visited(t, p) == {<<t[i].x, t[i].y>> : i \in {j \in 1 .. Len(t) : t[j].probe = p}}

\* the squared distance between the two points of a two-point set
Spread2(pts) ==
    LET a == CHOOSE a \in pts : TRUE
        b == CHOOSE b \in pts : b # a
    IN  Norm2(<<a[1] - b[1], a[2] - b[2]>>)

\* C4: a probe that visits exactly two points a distance d apart is kept
\* exactly when d * mpp > threshold.
C4_DiagonalScaledByMpp ==
    call.fn = "is_not_dirt" =>
        \A p \in ProbeIds(traj) :
            Cardinality(Visited(traj, p)) = 2 =>
                (result[p] <=>
                    Spread2(Visited(traj, p)) * call.mpp * call.mpp
                        > call.threshold * call.threshold)

\* C5: vanhove raises whenever the lag exceeds the frame span of the table,
\* the last frame minus the first.
C5_LagBeyondSpanRaises ==
    (call.fn = "vanhove"
        /\ call.lagtime > SetMax(FramesOf(traj)) - SetMin(FramesOf(traj))) =>
        result.raised

====
